---- MODULE Spec2Model ----
(***************************************************************************)
(* Model of the Sticker Factory print path (src/printer_utils.py):         *)
(*   - print_image        : the submission facade (enqueue, poll, save)    *)
(*   - process_print_job  : conversion, transmission, cleanup              *)
(*   - print_queue        : the job queue of job_queue.py, which is not    *)
(*                          part of src/ and is modelled from spec.md 4.3  *)
(*   - find_and_parse_printer / get_printer_status : printer discovery     *)
(***************************************************************************)
EXTENDS Integers, Sequences, FiniteSets, TLC

\* ------------------------------------------------------------------ bounds
MaxCallers == 2          \* concurrent print_image calls (sessions)
MaxEpoch == 0            \* int(time.time()) values seen by safe_filename
MaxDevices == 2
PollIntervalTicks == 2          \* devices listed in one discovery pass, all backends together

\* --------------------------------------------------------------- constants
ETIMEDOUT == 110         \* printer_utils.py:282  "Operation timed out"

None == "None"           \* Python's None

Callers == 1..MaxCallers
\* errno values a usb.core.USBError may carry: ETIMEDOUT and ENODEV (19)
Errnos == {ETIMEDOUT, 19}

VARIABLES
    PRIVACY_MODE,     \* config_manager.PRIVACY_MODE
    printer_info,     \* print_image: the printer_info argument (the selected printer's record)
    pc,               \* print_image: position of each call
    temp_file_path,   \* print_image: local temp_file_path of each call (0 = not yet)
    job_id,           \* print_image: local job_id of each call (0 = not yet)
    status,           \* print_image: local status (last get_job_status result)
    retval,           \* print_image: the value each call returned (<<>> = not yet)
    ui_error,         \* print_image: text shown by status_container.error
    saved,            \* print_image: filenames each call saved under labels/
    temp_files,       \* temporary files that exist on disk
    labels_dir,       \* permanent files that exist under labels/
    job_statuses,     \* print_queue: status record by job id (sequence, id = index)
    queue,            \* print_queue: jobs handed to the processor, FIFO
    w_pc,             \* processor: position inside the current job
    w_job,            \* processor: the job being processed (0 = none)
    w_result,         \* process_print_job: the pending return value
    proc,             \* per job: what process_print_job did (calls, sends, outcome, cleanup, result)
    FALLBACK_LABEL_TYPE,  \* config_manager.FALLBACK_LABEL_TYPE
    FALLBACK_MODELS,  \* config_manager.FALLBACK_MODELS
    d_pc,             \* find_and_parse_printer: position ("idle" = not called)
    backend_i,        \* find_and_parse_printer: index of backend_name in the backend list
    available_devices,\* find_and_parse_printer: identifiers each backend listed
    device_i,         \* find_and_parse_printer: devices of the current backend iterated so far
    model,            \* find_and_parse_printer: the local `model`
    found_printers,   \* find_and_parse_printer: the list being returned
    backend_error,    \* what "Error with backend ..." (line 110) was logged for, per backend
    p_printer,        \* get_printer_status: the record `printer` it is called on
    p_before,         \* get_printer_status: that record as it was before the last call
    p_call,           \* get_printer_status: the last call (query issued, result, outcome)
    session_state,    \* comfy_ai.render: the comfy_* keys of st.session_state
    comfy_run         \* comfy_ai.render: time since comfy_last_poll_time, and what the runs did

printVars == <<PRIVACY_MODE, printer_info, pc, temp_file_path, job_id, status, retval, ui_error,
               saved, temp_files, labels_dir, job_statuses, queue,
               w_pc, w_job, w_result, proc>>

discoverVars == <<FALLBACK_LABEL_TYPE, FALLBACK_MODELS, d_pc, backend_i,
                  available_devices, device_i, model, found_printers, backend_error>>

probeVars == <<p_printer, p_before, p_call>>

comfyVars == <<session_state, comfy_run>>

vars == <<printVars, discoverVars, probeVars, comfyVars>>

\* ------------------------------------------------------------ Python strings
\* The discovery code works on the characters of identifiers and of the
\* status command's output; a str is modelled as the sequence of its
\* characters.
IsAt(s, sub, i) ==
    /\ i + Len(sub) - 1 <= Len(s)
    /\ \A k \in 1..Len(sub) : s[i + k - 1] = sub[k]

\* sub in s
Contains(s, sub) == \E i \in 1..Len(s) : IsAt(s, sub, i)

\* s.split(sep): scan from the left, cut at each non-overlapping sep
RECURSIVE SplitFrom(_, _, _, _)
SplitFrom(s, sep, i, cur) ==
    IF i > Len(s) THEN <<cur>>
    ELSE IF IsAt(s, sep, i) THEN <<cur>> \o SplitFrom(s, sep, i + Len(sep), <<>>)
    ELSE SplitFrom(s, sep, i + 1, Append(cur, s[i]))

Split(s, sep) == SplitFrom(s, sep, 1, <<>>)

\* s.strip()
Whitespace == {" "}
RECURSIVE LStrip(_)
LStrip(s) == IF s # <<>> /\ Head(s) \in Whitespace THEN LStrip(Tail(s)) ELSE s
RECURSIVE RStrip(_)
RStrip(s) == IF s # <<>> /\ s[Len(s)] \in Whitespace
             THEN RStrip(SubSeq(s, 1, Len(s) - 1)) ELSE s
Strip(s) == RStrip(LStrip(s))

\* s[-n:]
LastChars(s, n) == IF Len(s) <= n THEN s ELSE SubSeq(s, Len(s) - n + 1, Len(s))

\* int(s, base) for base 10 and 16: surrounding whitespace is ignored, base 16
\* accepts a 0x prefix, and anything but a non-empty run of digits of the
\* base raises ValueError.  (Signs and underscores do not occur in the
\* inputs of this model.)
ValueError == -1
DigitValue == [ch \in {"0","1","2","3","4","5","6","7","8","9"} |->
                 CASE ch = "0" -> 0 [] ch = "1" -> 1 [] ch = "2" -> 2 [] ch = "3" -> 3
                   [] ch = "4" -> 4 [] ch = "5" -> 5 [] ch = "6" -> 6 [] ch = "7" -> 7
                   [] ch = "8" -> 8 [] ch = "9" -> 9]
           @@ [ch \in {"a","b","c","d","e","f"} |->
                 CASE ch = "a" -> 10 [] ch = "b" -> 11 [] ch = "c" -> 12
                   [] ch = "d" -> 13 [] ch = "e" -> 14 [] ch = "f" -> 15]
           @@ [ch \in {"A","B","C","D","E","F"} |->
                 CASE ch = "A" -> 10 [] ch = "B" -> 11 [] ch = "C" -> 12
                   [] ch = "D" -> 13 [] ch = "E" -> 14 [] ch = "F" -> 15]

IsDigit(ch, base) == ch \in DOMAIN DigitValue /\ DigitValue[ch] < base

RECURSIVE DigitsValue(_, _, _)
DigitsValue(ds, base, acc) ==
    IF ds = <<>> THEN acc
    ELSE DigitsValue(Tail(ds), base, acc * base + DigitValue[Head(ds)])

ParseInt(s, base) ==
    LET t == Strip(s)
        ds == IF base = 16 /\ Len(t) >= 2 /\ t[1] = "0" /\ t[2] \in {"x", "X"}
              THEN SubSeq(t, 3, Len(t)) ELSE t
    IN IF ds # <<>> /\ \A k \in 1..Len(ds) : IsDigit(ds[k], base)
       THEN DigitsValue(ds, base, 0)
       ELSE ValueError

\* ================================================== printer discovery
\* text literals of src/printer_utils.py, as character sequences
T_slash == <<"/">>
T_colon == <<":">>
T_x == <<"x">>
T_dash == <<" ", "-", " ">>
T_unknown == <<"u", "n", "k", "n", "o", "w", "n">>
T_timeout == <<"t", "i", "m", "e", "o", "u", "t">>
T_waiting == <<"W", "a", "i", "t", "i", "n", "g", " ", "t", "o", " ", "r", "e", "c", "e", "i", "v", "e">>
T_Phase == <<"P", "h", "a", "s", "e", ":">>
T_MediaSize == <<"M", "e", "d", "i", "a", " ", "s", "i", "z", "e", ":">>
T_pyusb == <<"p", "y", "u", "s", "b">>
T_linux_kernel == <<"l", "i", "n", "u", "x", "_", "k", "e", "r", "n", "e", "l">>
T_QL500 == <<"Q", "L", "-", "5", "0", "0">>
T_QL570 == <<"Q", "L", "-", "5", "7", "0">>
T_62 == <<"6", "2">>
T_62mm == <<"6", "2", "m", "m">>
T_query_error == <<"[", "E", "r", "r", "n", "o", " ", "2", "]", " ", "N", "o", " ", "s", "u", "c", "h", " ", "f", "i", "l", "e", " ", "o", "r", " ", "d", "i", "r", "e", "c", "t", "o", "r", "y">>

\* device identifiers the enumeration backends may report
\* "usb://0x04f9:0x2028/0A1B2C": a QL-570
Id570 == <<"u", "s", "b", ":", "/", "/", "0", "x", "0", "4", "f", "9", ":", "0", "x", "2", "0", "2", "8", "/", "0", "A", "1", "B", "2", "C">>
\* "usb://0x04f9:0x2015/9Z": a QL-500 (serial shorter than 4 characters)
Id500 == <<"u", "s", "b", ":", "/", "/", "0", "x", "0", "4", "f", "9", ":", "0", "x", "2", "0", "1", "5", "/", "9", "Z">>
\* "usb://0x04f9:0xffff/S1": product id is hex but in no model
IdNoModel == <<"u", "s", "b", ":", "/", "/", "0", "x", "0", "4", "f", "9", ":", "0", "x", "f", "f", "f", "f", "/", "S", "1">>
\* "usb://0x04f9:0x2028": three segments
IdShort == <<"u", "s", "b", ":", "/", "/", "0", "x", "0", "4", "f", "9", ":", "0", "x", "2", "0", "2", "8">>
\* "file:///dev/usb/lp0": no vendor:product segment
IdKernel == <<"f", "i", "l", "e", ":", "/", "/", "/", "d", "e", "v", "/", "u", "s", "b", "/", "l", "p", "0">>
\* "usb://0x04f9:0x2028:1/S2": three colon-separated tokens
IdThreeTokens == <<"u", "s", "b", ":", "/", "/", "0", "x", "0", "4", "f", "9", ":", "0", "x", "2", "0", "2", "8", ":", "1", "/", "S", "2">>
\* "usb://0x04f9:0x20g8/S3": product id is not hex
IdBadProduct == <<"u", "s", "b", ":", "/", "/", "0", "x", "0", "4", "f", "9", ":", "0", "x", "2", "0", "g", "8", "/", "S", "3">>
\* "usb://zz:0x2028/S4": vendor id is not hex
IdBadVendor == <<"u", "s", "b", ":", "/", "/", "z", "z", ":", "0", "x", "2", "0", "2", "8", "/", "S", "4">>

\* "usb/bus/04f9:2028/000A1B2C3D": a QL-570 whose ids carry no 0x prefix
IdScenario == <<"u", "s", "b", "/", "b", "u", "s", "/", "0", "4", "f", "9", ":", "2", "0", "2", "8", "/", "0", "0", "0", "A", "1", "B", "2", "C", "3", "D">>

Identifiers == {Id570, Id500, IdNoModel, IdShort, IdKernel, IdThreeTokens, IdBadProduct, IdBadVendor}

\* status command outputs (stdout, already split into lines)
Line_PhaseWaiting == <<"P", "h", "a", "s", "e", ":", " ", "W", "a", "i", "t", "i", "n", "g", " ", "t", "o", " ", "r", "e", "c", "e", "i", "v", "e">>
Line_Media62x0 == <<"M", "e", "d", "i", "a", " ", "s", "i", "z", "e", ":", " ", "6", "2", " ", "x", " ", "0", " ", "m", "m">>
Line_Media62mm == <<"M", "e", "d", "i", "a", " ", "s", "i", "z", "e", ":", " ", "6", "2", "m", "m">>
Line_Media103x0 == <<"M", "e", "d", "i", "a", " ", "s", "i", "z", "e", ":", " ", "1", "0", "3", " ", "x", " ", "0", " ", "m", "m">>
\* the output of the 62 mm scenario: "Phase: Waiting to Receive", "Media size: 62mm"
Line_PhaseWaitingToReceive == <<"P", "h", "a", "s", "e", ":", " ", "W", "a", "i", "t", "i", "n", "g", " ", "t", "o", " ", "R", "e", "c", "e", "i", "v", "e">>
Line_Media17x54 == <<"M", "e", "d", "i", "a", " ", "s", "i", "z", "e", ":", " ", "1", "7", " ", "x", " ", "5", "4", " ", "m", "m">>

NoQuery == [kind |-> "none", stdout |-> <<>>]
Timeout == [kind |-> "TimeoutExpired", stdout |-> <<>>]
QueryError == [kind |-> "Exception", stdout |-> <<>>]
Stdout(lines) == [kind |-> "completed", stdout |-> lines]

QueryResults == {Timeout, QueryError,
                 Stdout(<<Line_PhaseWaiting, Line_Media62x0>>),
                 Stdout(<<Line_PhaseWaitingToReceive, Line_Media62mm>>),
                 Stdout(<<Line_PhaseWaiting, Line_Media103x0>>),
                 Stdout(<<Line_Media17x54, Line_PhaseWaiting>>),
                 Stdout(<<>>)}

\* the results drawn while discovery runs
DiscoverQueryResults == {Timeout, Stdout(<<Line_PhaseWaiting, Line_Media62x0>>)}

\* brother_ql's static tables (external to src/): the models with their USB
\* product ids, and the labels with their printable width in dots.
ModelTable == << [identifier |-> T_QL500, product_id |-> 8213],
                 [identifier |-> T_QL570, product_id |-> 8232] >>

ALL_LABELS == << [identifier |-> <<"1","2">>, dots_printable |-> 106],
                 [identifier |-> <<"2","9">>, dots_printable |-> 306],
                 [identifier |-> T_62, dots_printable |-> 696],
                 [identifier |-> <<"1","0","2">>, dots_printable |-> 1164] >>

NoHeight == -1           \* label_height = None (line 125, line 159)
Unbound == <<"<unbound>">>   \* the local `model` before its first assignment

\* lines 28-42: PrinterInfo(...) with the dataclass defaults
PrinterInfo(identifier, backend, model_code, protocol, vendor_id, product_id, serial_number) ==
    [identifier |-> identifier, backend |-> backend, protocol |-> protocol,
     vendor_id |-> vendor_id, product_id |-> product_id,
     serial_number |-> serial_number,
     name |-> <<"Brother QL Printer">>, model |-> model_code,
     status |-> T_unknown, label_type |-> T_unknown, label_size |-> T_unknown,
     label_width |-> 0, label_height |-> 0]

\* lines 175-183: get_label_width; ValueError stands for the raise of line 183
RECURSIVE LabelWidthIn(_, _)
LabelWidthIn(label_definitions, label_type) ==
    IF label_definitions = <<>> THEN ValueError
    ELSE IF Head(label_definitions).identifier = label_type
         THEN Head(label_definitions).dots_printable
         ELSE LabelWidthIn(Tail(label_definitions), label_type)

get_label_width(label_type) == LabelWidthIn(ALL_LABELS, label_type)

\* lines 146-162: the "Media size:" branch for one line of output
label_sizes == {12, 29, 38, 50, 54, 62, 102, 103, 104}

RECURSIVE Digits(_)
Digits(n) == IF n < 10 THEN <<CHOOSE ch \in DOMAIN DigitValue :
                                 DigitValue[ch] = n /\ IsDigit(ch, 10)>>
             ELSE Digits(n \div 10) \o Digits(n % 10)

ParseMediaSize(printer, line) ==
    LET size == Strip(Split(line, T_MediaSize)[2])
        size_str == Strip(Split(size, T_x)[1])
        media_width_mm == ParseInt(size_str, 10)
        p1 == [printer EXCEPT !.label_size = size]
    IN IF media_width_mm = ValueError \/ media_width_mm \notin label_sizes
         THEN p1
       ELSE LET label_type == Digits(media_width_mm)
                p2 == [p1 EXCEPT !.label_type = label_type]
            IN IF get_label_width(label_type) = ValueError
                 THEN p2
                 ELSE [p2 EXCEPT !.label_width = get_label_width(label_type),
                                 !.label_height = NoHeight]

\* lines 142-162: one line of the status output
ParseStatusLine(printer, line) ==
    LET p1 == IF Contains(line, T_Phase)
                THEN [printer EXCEPT !.status = Strip(Split(line, T_Phase)[2])]
                ELSE printer
    IN IF Contains(line, T_MediaSize) THEN ParseMediaSize(p1, line) ELSE p1

RECURSIVE ParseStatusLines(_, _)
ParseStatusLines(printer, lines) ==
    IF lines = <<>> THEN printer
    ELSE ParseStatusLines(ParseStatusLine(printer, Head(lines)), Tail(lines))

\* lines 116-120: the fields every call resets first
ResetFieldsKeepLabel(printer) ==
    [printer EXCEPT !.status = T_unknown, !.label_size = T_unknown,
                    !.label_height = 0]

ResetFields(printer) ==
    [printer EXCEPT !.status = T_unknown, !.label_type = T_unknown,
                    !.label_size = T_unknown, !.label_width = 0,
                    !.label_height = 0]

\* line 122: the record's model selects the fallback path
UsesFallbackNever(printer) == FALSE

UsesFallback(printer) == printer.model \in FALLBACK_MODELS

\* lines 115-170: get_printer_status(printer), given what the status command
\* does when it is run.  The result carries the mutated record, whether the
\* call raised, and whether the status command was run (line 132).
get_printer_status(printer, query) ==
    LET reset == ResetFields(printer)
    IN IF UsesFallback(printer)
         THEN LET p1 == [reset EXCEPT !.label_type = FALLBACK_LABEL_TYPE] IN
              IF get_label_width(FALLBACK_LABEL_TYPE) = ValueError
                THEN [printer |-> p1, raised |-> TRUE, queried |-> FALSE]
                ELSE [printer |-> [p1 EXCEPT
                                     !.label_width = get_label_width(FALLBACK_LABEL_TYPE),
                                     !.label_height = NoHeight,
                                     !.status = T_waiting],
                      raised |-> FALSE, queried |-> FALSE]
       ELSE CASE query.kind = "TimeoutExpired" ->
                   [printer |-> [reset EXCEPT !.status = T_timeout],
                    raised |-> FALSE, queried |-> TRUE]
              [] query.kind = "Exception" ->
                   [printer |-> [reset EXCEPT !.status = T_query_error],
                    raised |-> FALSE, queried |-> TRUE]
              [] OTHER ->
                   [printer |-> ParseStatusLines(reset, query.stdout),
                    raised |-> FALSE, queried |-> TRUE]

\* a caller probes the record it holds (again): one whole call of
\* get_printer_status on p_printer
NoCall == [query |-> NoQuery, outcome |-> "none"]

GetPrinterStatus ==
    /\ p_call.outcome \in {"none", "returned", "raised"}
    /\ \E query \in QueryResults :
         LET r == get_printer_status(p_printer, query)
         IN /\ p_before' = p_printer
            /\ p_printer' = r.printer
            /\ p_call' = [query |-> IF r.queried THEN query ELSE NoQuery,
                          outcome |-> IF r.raised THEN "raised" ELSE "returned"]
    /\ UNCHANGED <<printVars, discoverVars, comfyVars>>

\* ------------------------------ find_and_parse_printer (lines 51-112)
Backends == <<T_pyusb, T_linux_kernel>>

NoInfo == PrinterInfo(<<>>, <<>>, Unbound, <<>>, <<>>, <<>>, <<>>)

\* lines 85-88: the first model whose product_id matches, else the local
\* `model` keeps the value it had
RECURSIVE MatchModel(_, _, _)
MatchModel(models, product_id_int, current) ==
    IF models = <<>> THEN current
    ELSE IF Head(models).product_id = product_id_int THEN Head(models).identifier
    ELSE MatchModel(Tail(models), product_id_int, current)

\* lines 69-71: what the loop does with an identifier of fewer than 4 parts
OnInvalidIdentifierRaise == "raise"
OnInvalidIdentifier == "skip"

\* lines 77-81: `vendor_id, product_id = device_info.split(":")` unpacks
\* exactly two tokens, anything else is a ValueError
UnpacksAtLeastTwo(tokens) == Len(tokens) >= 2

UnpacksToTwo(tokens) == Len(tokens) = 2

\* lines 66-102: one device, up to the construction of its PrinterInfo.
\* "skip" is a `continue`; "raise" is an exception that leaves the device
\* loop (reading the unassigned local `model` at line 89).
ParseDevice(identifier, backend_name, current_model) ==
    LET parts == Split(identifier, T_slash)
        Skip == [outcome |-> "skip", model |-> current_model, info |-> NoInfo]
    IN IF Len(parts) < 4
         THEN [outcome |-> OnInvalidIdentifier, model |-> current_model, info |-> NoInfo]
       ELSE
         LET protocol == parts[1]
             device_info == parts[3]
             serial_number == parts[4]
             tokens == Split(device_info, T_colon)
         IN IF ~UnpacksToTwo(tokens) THEN Skip
            ELSE
              LET vendor_id == tokens[1]
                  product_id == tokens[2]
                  product_id_int == ParseInt(product_id, 16)
                  m == MatchModel(ModelTable, product_id_int, current_model)
              IN IF product_id_int = ValueError THEN Skip
                 ELSE IF m = Unbound
                   THEN [outcome |-> "raise", model |-> current_model, info |-> NoInfo]
                 ELSE [outcome |-> "record", model |-> m,
                       info |-> PrinterInfo(identifier, backend_name, m, protocol,
                                            vendor_id, product_id, serial_number)]

\* lines 94-105: the record of a resolvable device before it is probed
DiscoveredRecord(identifier, backend_name) ==
    LET r == ParseDevice(identifier, backend_name, Unbound)
    IN [r.info EXCEPT !.name = r.model \o T_dash \o LastChars(r.info.serial_number, 4)]

\* lines 109-111: `continue` with the next backend after logging the error
AfterBackendErrorAbort(i) == Len(Backends) + 1
AfterBackendError(i) == i + 1

\* lines 51-55
DiscoverStart ==
    /\ d_pc = "idle"
    /\ d_pc' = "backend"
    /\ backend_i' = 1
    /\ found_printers' = <<>>
    /\ model' = Unbound
    /\ UNCHANGED <<printVars, probeVars, comfyVars, FALLBACK_LABEL_TYPE, FALLBACK_MODELS, available_devices,
                   device_i, backend_error>>

\* lines 57-62 and 109-111: the next backend is tried; backend_factory or
\* list_available_devices may raise.
DiscoverBackend ==
    /\ d_pc = "backend"
    /\ backend_i <= Len(Backends)
    /\ \E raised \in {"none", "factory", "listing"} :
         IF raised = "none"
           THEN /\ d_pc' = "devices"
                /\ device_i' = 0
                /\ UNCHANGED <<backend_i, backend_error>>
           ELSE /\ backend_error' = [backend_error EXCEPT ![backend_i] = raised]
                /\ backend_i' = AfterBackendError(backend_i)
                /\ UNCHANGED <<d_pc, device_i>>
    /\ UNCHANGED <<printVars, probeVars, comfyVars, FALLBACK_LABEL_TYPE, FALLBACK_MODELS, available_devices,
                   model, found_printers>>

\* lines 64-107: one iteration of the device loop, get_printer_status included
DiscoverDevice ==
    /\ d_pc = "devices"
    /\ device_i < Len(available_devices[backend_i])
    /\ LET identifier == available_devices[backend_i][device_i + 1]
           r == ParseDevice(identifier, Backends[backend_i], model)
       IN CASE r.outcome = "skip" ->
                 /\ device_i' = device_i + 1
                 /\ UNCHANGED <<d_pc, backend_i, model, found_printers, backend_error>>
            [] r.outcome = "raise" ->
                 /\ backend_error' = [backend_error EXCEPT ![backend_i] = "device"]
                 /\ backend_i' = AfterBackendError(backend_i)
                 /\ d_pc' = "backend"
                 /\ UNCHANGED <<device_i, model, found_printers>>
            [] OTHER ->
                 \E query \in DiscoverQueryResults :
                   LET named == [r.info EXCEPT !.name =
                                    r.model \o T_dash \o LastChars(r.info.serial_number, 4)]
                       probed == get_printer_status(named, query)
                   IN /\ found_printers' = Append(found_printers, probed.printer)
                      /\ model' = r.model
                      /\ IF probed.raised
                           THEN /\ backend_error' =
                                      [backend_error EXCEPT ![backend_i] = "device"]
                                /\ backend_i' = AfterBackendError(backend_i)
                                /\ d_pc' = "backend"
                                /\ UNCHANGED device_i
                           ELSE /\ device_i' = device_i + 1
                                /\ UNCHANGED <<d_pc, backend_i, backend_error>>
    /\ UNCHANGED <<printVars, probeVars, comfyVars, FALLBACK_LABEL_TYPE, FALLBACK_MODELS, available_devices>>

\* line 64: the device loop of the current backend is exhausted
DiscoverEndBackend ==
    /\ d_pc = "devices"
    /\ device_i = Len(available_devices[backend_i])
    /\ backend_i' = backend_i + 1
    /\ d_pc' = "backend"
    /\ UNCHANGED <<printVars, probeVars, comfyVars, FALLBACK_LABEL_TYPE, FALLBACK_MODELS, available_devices,
                   device_i, model, found_printers, backend_error>>

\* line 112: return found_printers
DiscoverReturn ==
    /\ d_pc = "backend"
    /\ backend_i > Len(Backends)
    /\ d_pc' = "done"
    /\ UNCHANGED <<printVars, probeVars, comfyVars, FALLBACK_LABEL_TYPE, FALLBACK_MODELS, backend_i,
                   available_devices, device_i, model, found_printers, backend_error>>

\* ------------------------------------------------------------ job statuses
JobStatus(s, e) == [status |-> s, error |-> e]
NoStatus == JobStatus("none", None)
Terminal == {"completed", "failed"}

\* ------------------------------------------------ safe_filename (lines 24-26)
\* f"{epoch_time}_{text}.png"
safe_filename(epoch_time, text) == <<epoch_time, "_", text, ".png">>

\* --------------------------------------- print_queue (modelled from spec.md)
\* enqueue: assigns a new unique id, stores the job in pending state and
\* hands it to the processor.
NewJobId == Len(job_statuses) + 1

NoOutcome == [kind |-> "none", value |-> FALSE, errno |-> 0]
NoProc == [calls |-> 0, sends |-> 0, backend_identifier |-> <<>>,
           outcome |-> NoOutcome, cleanup |-> "none", result |-> <<>>]

AddJob(path) ==
    /\ job_statuses' = Append(job_statuses, JobStatus("pending", None))
    /\ queue' = Append(queue, [job_id |-> NewJobId, temp_file_path |-> path])
    /\ proc' = Append(proc, NoProc)

\* status(job_id): the stored status record
GetJobStatus(j) == job_statuses[j]

\* ------------------------------------------- print_image (lines 186-228)
\* lines 188-196: the image is written to a fresh temporary file
\* (NamedTemporaryFile hands out a name no other call holds).
WrittenTempFilesNone(files, path) == files

WrittenTempFiles(files, path) == files \cup {path}

PrintImageSaveTemp(c) ==
    /\ pc[c] = "start"
    /\ temp_file_path' = [temp_file_path EXCEPT ![c] = c]
    /\ temp_files' = WrittenTempFiles(temp_files, c)
    /\ pc' = [pc EXCEPT ![c] = "add_job"]
    /\ UNCHANGED <<PRIVACY_MODE, printer_info, job_id, status, retval, ui_error, saved, labels_dir,
                   job_statuses, queue, w_pc, w_job, w_result, proc>>

\* lines 198-205: job_id = print_queue.add_job(...).  The calls are
\* interchangeable, so they are numbered in the order in which their add_job
\* takes effect (the temporary files may be written in any order).
PrintImageAddJob(c) ==
    /\ pc[c] = "add_job"
    /\ \A earlier \in 1..(c - 1) : job_id[earlier] # 0
    /\ AddJob(temp_file_path[c])
    /\ job_id' = [job_id EXCEPT ![c] = NewJobId]
    /\ pc' = [pc EXCEPT ![c] = "get_status"]
    /\ UNCHANGED <<PRIVACY_MODE, printer_info, temp_file_path, status, retval, ui_error, saved,
                   temp_files, labels_dir, w_pc, w_job, w_result>>

\* line 207: status = print_queue.get_job_status(job_id)
FirstLookupStale(c) == GetJobStatus(1)
FirstLookup(c) == GetJobStatus(job_id[c])

PrintImageGetStatus(c) ==
    /\ pc[c] = "get_status"
    /\ status' = [status EXCEPT ![c] = FirstLookup(c)]
    /\ pc' = [pc EXCEPT ![c] = "poll"]
    /\ UNCHANGED <<PRIVACY_MODE, printer_info, temp_file_path, job_id, retval, ui_error, saved,
                   temp_files, labels_dir, job_statuses, queue, w_pc, w_job,
                   w_result, proc>>

\* lines 210-213: one iteration of the wait loop
KeepsPollingPendingOnly(st) == st.status = "pending"

KeepsPolling(st) == st.status \in {"pending", "processing"}

PollLookupLatest(c) == GetJobStatus(Len(job_statuses))
PollLookup(c) == GetJobStatus(job_id[c])

PrintImagePoll(c) ==
    /\ pc[c] = "poll"
    /\ KeepsPolling(status[c])
    /\ status' = [status EXCEPT ![c] = PollLookup(c)]
    /\ UNCHANGED <<PRIVACY_MODE, printer_info, pc, temp_file_path, job_id, retval, ui_error, saved,
                   temp_files, labels_dir, job_statuses, queue, w_pc, w_job,
                   w_result, proc>>

\* lines 215-228: the branch on the observed terminal status
PrintImageReturnAlways(st) == TRUE
PrintImageReturn(st) == st.status = "completed"

SavesStickerAlways(st, privacy) == st.status = "completed"
SavesSticker(st, privacy) == st.status = "completed" /\ ~privacy

PrintImageFinish(c) ==
    /\ pc[c] = "poll"
    /\ ~KeepsPolling(status[c])
    /\ IF SavesSticker(status[c], PRIVACY_MODE)
         THEN \E epoch_time \in 0..MaxEpoch :
                LET filename == safe_filename(epoch_time, "Stikka-") IN
                  /\ labels_dir' = labels_dir \cup {filename}
                  /\ saved' = [saved EXCEPT ![c] = Append(@, filename)]
         ELSE UNCHANGED <<labels_dir, saved>>
    /\ ui_error' = [ui_error EXCEPT ![c] =
                      IF status[c].status = "completed" THEN @ ELSE status[c].error]
    /\ retval' = [retval EXCEPT ![c] = <<PrintImageReturn(status[c])>>]
    /\ pc' = [pc EXCEPT ![c] = "returned"]
    /\ UNCHANGED <<PRIVACY_MODE, printer_info, temp_file_path, job_id, status, temp_files,
                   job_statuses, queue, w_pc, w_job, w_result, proc>>

\* ------------------------------------ process_print_job (lines 231-301)
\* What the call to send() can do: return a truthy or falsy value, raise
\* usb.core.USBError with some errno, or raise anything else.
Returned(v) == [kind |-> "returned", value |-> v, errno |-> 0]
USBError(e) == [kind |-> "USBError", value |-> FALSE, errno |-> e]
OtherException == [kind |-> "Exception", value |-> FALSE, errno |-> 0]
ConvertException == [kind |-> "ConvertException", value |-> FALSE, errno |-> 0]

SendOutcomes == {Returned(TRUE), Returned(FALSE), OtherException}
                   \cup {USBError(e) : e \in Errnos}

\* str(e) of the exceptions above
StrError(o) ==
    CASE o.kind = "USBError" /\ o.errno = ETIMEDOUT -> "[Errno 110] Operation timed out"
      [] o.kind = "USBError" -> "[Errno 19] No such device"
      [] o.kind = "ConvertException" -> "conversion failed"
      [] OTHER -> "send failed"

\* lines 275-292: the (success, error_message) pair for each outcome
ProcessResultAllUSBFail(o) ==
    CASE o.kind = "returned" /\ o.value -> <<TRUE, None>>
      [] o.kind = "returned" -> <<FALSE, "Failed to print using Python API">>
      [] o.kind = "USBError" -> <<FALSE, "USBError encountered: " \o StrError(o)>>
      [] OTHER -> <<FALSE, "Unexpected error during printing: " \o StrError(o)>>

ProcessResultFalsyOk(o) ==
    CASE o.kind = "returned" -> <<TRUE, None>>
      [] o.kind = "USBError" /\ o.errno = ETIMEDOUT ->
              <<TRUE, "Print completed (timeout is normal)">>
      [] o.kind = "USBError" -> <<FALSE, "USBError encountered: " \o StrError(o)>>
      [] OTHER -> <<FALSE, "Unexpected error during printing: " \o StrError(o)>>

ProcessResult(o) ==
    CASE o.kind = "returned" /\ o.value -> <<TRUE, None>>
      [] o.kind = "returned" -> <<FALSE, "Failed to print using Python API">>
      [] o.kind = "USBError" /\ o.errno = ETIMEDOUT ->
              <<TRUE, "Print completed (timeout is normal)">>
      [] o.kind = "USBError" -> <<FALSE, "USBError encountered: " \o StrError(o)>>
      [] OTHER -> <<FALSE, "Unexpected error during printing: " \o StrError(o)>>

NoJob == [job_id |-> 0, temp_file_path |-> 0]

\* lines 268-273: send() is called once per process_print_job call
SendAttemptsRetry(o) == IF o.kind = "returned" /\ o.value THEN 1 ELSE 2
SendAttempts(o) == 1

\* line 272: the backend_identifier argument of send()
SendBackend(info) == T_pyusb

\* lines 237-292: the try block.  BrotherQLRaster(...) and convert(...) come
\* first; convert opens the temporary file, and a missing file, label type
\* or model makes it raise into `except Exception` (lines 289-292) before
\* send() is reached.  Otherwise send() is called and what it does is
\* classified.  The printer_info a job carries is the one print_image was
\* given (lines 198-205).
ProcessTry ==
    /\ w_pc = "try"
    /\ LET j == w_job.job_id IN
       \E o \in {ConvertException} \cup
                {so \in SendOutcomes : w_job.temp_file_path \in temp_files} :
         /\ proc' = [proc EXCEPT ![j].calls = @ + 1,
                                 ![j].sends = IF o = ConvertException THEN @
                                              ELSE @ + SendAttempts(o),
                                 ![j].backend_identifier =
                                     IF o = ConvertException THEN @
                                     ELSE SendBackend(printer_info),
                                 ![j].outcome = o]
         /\ w_result' = ProcessResult(o)
    /\ w_pc' = "finally"
    /\ UNCHANGED <<PRIVACY_MODE, printer_info, pc, temp_file_path, job_id, status, retval, ui_error,
                   saved, temp_files, labels_dir, job_statuses, queue, w_job>>

\* lines 294-301: the finally block.  os.remove either deletes the file or
\* raises; the raise is caught and logged.  A finally block without a return
\* statement leaves the pending return value as it is.
Raised == <<FALSE, "raised">>

CleanupResultRaises(result, how) == IF how = "failed" THEN Raised ELSE result
CleanupResult(result, how) == result

\* line 297: os.remove is attempted only if os.path.exists(temp_file_path)
CleanupAttemptsOnSuccess(result, exists) == exists /\ result[1]
CleanupAttempts(result, exists) == exists

ProcessCleanup ==
    /\ w_pc = "finally"
    /\ LET j == w_job.job_id
           path == w_job.temp_file_path
       IN \E remove_ok \in BOOLEAN :
            LET how == IF ~CleanupAttempts(w_result, path \in temp_files) THEN "skipped"
                       ELSE IF remove_ok THEN "deleted"
                       ELSE "failed"
            IN /\ temp_files' = IF how = "deleted" THEN temp_files \ {path}
                                ELSE temp_files
               /\ proc' = [proc EXCEPT ![j].cleanup = how,
                                       ![j].result = CleanupResult(w_result, how)]
               /\ w_result' = CleanupResult(w_result, how)
    /\ w_pc' = "return"
    /\ UNCHANGED <<PRIVACY_MODE, printer_info, pc, temp_file_path, job_id, status, retval, ui_error,
                   saved, labels_dir, job_statuses, queue, w_job>>

\* ------------------------- the queue's processing step (from spec.md 4.3)
\* The processor takes the oldest waiting job; its status becomes processing.
WorkerStart ==
    /\ w_pc = "idle"
    /\ queue # <<>>
    /\ w_job' = Head(queue)
    /\ queue' = Tail(queue)
    /\ job_statuses' = [job_statuses EXCEPT ![Head(queue).job_id] =
                           JobStatus("processing", None)]
    /\ w_pc' = "try"
    /\ UNCHANGED <<PRIVACY_MODE, printer_info, pc, temp_file_path, job_id, status, retval, ui_error,
                   saved, temp_files, labels_dir, w_result, proc>>

\* The result of process_print_job becomes the job's terminal status; the
\* error message is kept for a failed job only.
TerminalStatus(result) ==
    IF result[1] THEN JobStatus("completed", None)
                 ELSE JobStatus("failed", result[2])

WorkerFinish ==
    /\ w_pc = "return"
    /\ job_statuses' = [job_statuses EXCEPT ![w_job.job_id] = TerminalStatus(w_result)]
    /\ w_job' = NoJob
    /\ w_result' = <<>>
    /\ w_pc' = "idle"
    /\ UNCHANGED <<PRIVACY_MODE, printer_info, pc, temp_file_path, job_id, status, retval, ui_error,
                   saved, temp_files, labels_dir, queue, proc>>

\* ------------------------------------ comfy_ai.render (comfy_ai.py 116-269)
\* PollIntervalTicks is COMFY_POLL_INTERVAL (comfy_ai.py line 30) counted in
\* the 0.5 s sleeps of lines 217, 223 and 230.
max_attempts == 10

\* the comfy_* keys before the first run; lines 141-144 give the two absent
\* polling keys these values, and "unset" is a key that is not in
\* st.session_state (comfy_generating is only read behind the test for
\* comfy_prompt_id, line 170).
NoSession == [comfy_prompt_id |-> "unset", comfy_generating |-> FALSE,
              comfy_poll_attempts |-> 0, comfy_poll_failed |-> FALSE,
              comfy_generated_image |-> None]

\* since_last_poll: current_time - comfy_last_poll_time (capped at the
\* interval); polls: get_history calls since the last prompt was queued;
\* queued: parity of the number of prompts queued; last: what the last run did
NoRun == [since_last_poll |-> 0, polls |-> 0, queued |-> FALSE, last |-> "none"]

\* what one run of the script is given: whether the workflow template loads
\* (125-128); the Generate button: not pressed, pressed with an empty prompt
\* (148-149), pressed and queue_prompt returned None (166-167), pressed and
\* queue_prompt returned a result with a prompt_id or without one (157-165);
\* the time that passed since the previous run ended; what get_history and
\* get_image yield (189-211).
PromptIds == {"p1", "p2", None}
GenerateInputs == {"not_pressed", "empty_prompt", "queue_failed"} \cup PromptIds
HistoryInputs == {"no_history", "no_image", "image_unreadable", "image"}
RenderInputs == [template : BOOLEAN, generate : GenerateInputs,
                 dt : {0, PollIntervalTicks}, history : HistoryInputs]

Later(since, dt) == IF since + dt > PollIntervalTicks THEN PollIntervalTicks ELSE since + dt

\* lines 157-165: a prompt was queued; st.rerun() ends the run
QueuePrompt(ss, run, prompt_id) ==
    [ss |-> [ss EXCEPT !.comfy_prompt_id = prompt_id,
                       !.comfy_generating = TRUE,
                       !.comfy_poll_attempts = 0,
                       !.comfy_poll_failed = FALSE,
                       !.comfy_generated_image = None],
     run |-> [run EXCEPT !.polls = 0, !.queued = ~@, !.last = "queued"]]

\* line 175: the test that guards a poll
MayPollUnbounded(ss) == ~ss.comfy_poll_failed

MayPoll(ss) == ss.comfy_poll_attempts < max_attempts /\ ~ss.comfy_poll_failed

\* lines 232-236: the attempts are used up
GiveUpKeepsGenerating(ss) == [ss EXCEPT !.comfy_poll_failed = TRUE]

GiveUp(ss) == [ss EXCEPT !.comfy_poll_failed = TRUE, !.comfy_generating = FALSE]

\* lines 185-224: one poll.  Only a history entry with an image that get_image
\* could load ends the generation (205-211); otherwise the run sleeps 0.5 s
\* and reruns (213-224).
PollHistory(ss, run, history) ==
    LET polled == [ss EXCEPT !.comfy_poll_attempts = @ + 1]
    IN IF history = "image"
         THEN [ss |-> [polled EXCEPT !.comfy_generated_image = "image",
                                     !.comfy_generating = FALSE,
                                     !.comfy_poll_attempts = 0],
               run |-> [run EXCEPT !.since_last_poll = 0, !.polls = @ + 1,
                                   !.last = "image"]]
         ELSE [ss |-> polled,
               run |-> [run EXCEPT !.since_last_poll = Later(0, 1), !.polls = @ + 1,
                                   !.last = "polled"]]

\* lines 170-239: the polling section of a run that got this far
PollSection(ss, run, history) ==
    IF ss.comfy_prompt_id # "unset" /\ ss.comfy_generating
      THEN IF MayPoll(ss)
             THEN IF run.since_last_poll >= PollIntervalTicks \/ ss.comfy_poll_attempts = 0
                    THEN PollHistory(ss, run, history)
                    ELSE [ss |-> ss,
                          run |-> [run EXCEPT !.since_last_poll = Later(@, 1),
                                              !.last = "waited"]]
           ELSE IF ss.comfy_poll_attempts >= max_attempts /\ ~ss.comfy_poll_failed
             THEN [ss |-> GiveUp(ss), run |-> [run EXCEPT !.last = "gave_up"]]
           ELSE [ss |-> ss, run |-> [run EXCEPT !.last = "idle"]]
      ELSE [ss |-> ss, run |-> [run EXCEPT !.last = "idle"]]

\* lines 116-239: one run of the script on the session state
render(ss, run, inp) ==
    LET now == [run EXCEPT !.since_last_poll = Later(@, inp.dt)]
    IN IF ~inp.template THEN [ss |-> ss, run |-> [now EXCEPT !.last = "no_template"]]
       ELSE IF inp.generate \in PromptIds THEN QueuePrompt(ss, now, inp.generate)
       ELSE PollSection(ss, now, inp.history)

Render(inp) ==
    /\ session_state' = render(session_state, comfy_run, inp).ss
    /\ comfy_run' = render(session_state, comfy_run, inp).run
    /\ UNCHANGED <<printVars, discoverVars, probeVars>>

\* a run that st.rerun() starts (lines 165, 218, 224, 231): no button is
\* pressed in it
Rerun == \E inp \in RenderInputs :
            inp.template /\ inp.generate = "not_pressed" /\ Render(inp)

\* no Comfy AI tab is open
ComfyIdle ==
    /\ session_state = NoSession
    /\ comfy_run = NoRun

\* ------------------------------------------------------------ specification
\* the print path before any print_image call
PrintIdle ==
    /\ pc = [c \in Callers |-> "start"]
    /\ temp_file_path = [c \in Callers |-> 0]
    /\ job_id = [c \in Callers |-> 0]
    /\ status = [c \in Callers |-> NoStatus]
    /\ retval = [c \in Callers |-> <<>>]
    /\ ui_error = [c \in Callers |-> None]
    /\ saved = [c \in Callers |-> <<>>]
    /\ temp_files = {}
    /\ labels_dir = {}
    /\ job_statuses = <<>>
    /\ queue = <<>>
    /\ w_pc = "idle"
    /\ w_job = NoJob
    /\ w_result = <<>>
    /\ proc = <<>>

\* discovery before any find_and_parse_printer call
DiscoverIdle ==
    /\ d_pc = "idle"
    /\ backend_i = 0
    /\ device_i = 0
    /\ model = Unbound
    /\ found_printers = <<>>
    /\ backend_error = [b \in DOMAIN Backends |-> "none"]

\* no record is being probed outside discovery
ProbeIdle ==
    /\ p_printer = NoInfo
    /\ p_before = NoInfo
    /\ p_call = NoCall

\* The print path: any privacy setting, a printer discovered through pyusb
\* selected, the default fallback configuration (config_manager.py lines 36,
\* 47, 48), no discovery running.
Init ==
    /\ PRIVACY_MODE \in BOOLEAN
    /\ printer_info = DiscoveredRecord(Id570, T_pyusb)
    /\ PrintIdle
    /\ FALLBACK_LABEL_TYPE = T_62
    /\ FALLBACK_MODELS = {}
    /\ available_devices = [b \in DOMAIN Backends |-> <<>>]
    /\ DiscoverIdle
    /\ ProbeIdle
    /\ ComfyIdle

Next ==
    \/ \E c \in Callers : PrintImageSaveTemp(c) /\ UNCHANGED <<discoverVars, probeVars, comfyVars>>
    \/ \E c \in Callers : PrintImageAddJob(c) /\ UNCHANGED <<discoverVars, probeVars, comfyVars>>
    \/ \E c \in Callers : PrintImageGetStatus(c) /\ UNCHANGED <<discoverVars, probeVars, comfyVars>>
    \/ \E c \in Callers : PrintImagePoll(c) /\ UNCHANGED <<discoverVars, probeVars, comfyVars>>
    \/ \E c \in Callers : PrintImageFinish(c) /\ UNCHANGED <<discoverVars, probeVars, comfyVars>>
    \/ WorkerStart /\ UNCHANGED <<discoverVars, probeVars, comfyVars>>
    \/ ProcessTry /\ UNCHANGED <<discoverVars, probeVars, comfyVars>>
    \/ ProcessCleanup /\ UNCHANGED <<discoverVars, probeVars, comfyVars>>
    \/ WorkerFinish /\ UNCHANGED <<discoverVars, probeVars, comfyVars>>

Spec == Init /\ [][Next]_vars

\* The print path for a printer discovered through either backend.
InitSend ==
    /\ PRIVACY_MODE \in BOOLEAN
    /\ printer_info \in {DiscoveredRecord(Id570, Backends[b]) : b \in DOMAIN Backends}
    /\ PrintIdle
    /\ FALLBACK_LABEL_TYPE = T_62
    /\ FALLBACK_MODELS = {}
    /\ available_devices = [b \in DOMAIN Backends |-> <<>>]
    /\ DiscoverIdle
    /\ ProbeIdle
    /\ ComfyIdle

SpecSend == InitSend /\ [][Next]_vars

\* The print path under the default privacy setting (config_manager.py line
\* 36), with every print_image call being a running thread: a call
\* that can take its next step (line 207, an iteration of the loop of lines
\* 210-213 that reads a new status, the branch of lines 215-228) eventually
\* takes it.  Nothing is assumed about the processor.  Each of these steps
\* changes the position or the status of the call.
waitVars == <<pc, status>>

PrintImageRuns(c) ==
    /\ WF_waitVars(PrintImageGetStatus(c) /\ UNCHANGED <<discoverVars, probeVars, comfyVars>>)
    /\ WF_waitVars(PrintImagePoll(c) /\ UNCHANGED <<discoverVars, probeVars, comfyVars>>)
    /\ WF_waitVars(PrintImageFinish(c) /\ UNCHANGED <<discoverVars, probeVars, comfyVars>>)

InitPolling == Init /\ PRIVACY_MODE = TRUE

SpecPolling == InitPolling /\ [][Next]_vars /\ \A c \in Callers : PrintImageRuns(c)

\* Discovery: any devices behind the two backends (MaxDevices in all), any
\* fallback configuration, default privacy setting, no print running.
SeqsUpTo(S, n) == UNION {[1..k -> S] : k \in 0..n}

InitDiscover ==
    /\ PRIVACY_MODE = TRUE
    /\ printer_info = NoInfo
    /\ PrintIdle
    /\ FALLBACK_LABEL_TYPE \in {T_62, T_62mm}
    /\ FALLBACK_MODELS \in {{}, {T_QL500}}
    /\ available_devices \in
          {d \in [DOMAIN Backends -> SeqsUpTo(Identifiers, MaxDevices)] :
               Len(d[1]) + Len(d[2]) <= MaxDevices}
    /\ DiscoverIdle
    /\ ProbeIdle
    /\ ComfyIdle

NextDiscover ==
    \/ DiscoverStart
    \/ DiscoverBackend
    \/ DiscoverDevice
    \/ DiscoverEndBackend
    \/ DiscoverReturn

SpecDiscover == InitDiscover /\ [][NextDiscover]_vars

\* The probe on its own: a record as discovery builds it for a resolvable
\* device (lines 94-105), any fallback configuration, probed any number of
\* times with any result of the status command.
ProbeIdentifiers == {Id570, Id500, IdScenario}

InitProbe ==
    /\ PRIVACY_MODE = TRUE
    /\ printer_info = NoInfo
    /\ PrintIdle
    /\ FALLBACK_LABEL_TYPE \in {T_62, T_62mm}
    /\ FALLBACK_MODELS \in {{}, {T_QL500}}
    /\ available_devices = [b \in DOMAIN Backends |-> <<>>]
    /\ DiscoverIdle
    /\ p_printer \in {DiscoveredRecord(identifier, Backends[b]) :
                         identifier \in ProbeIdentifiers, b \in DOMAIN Backends}
    /\ p_before = NoInfo
    /\ p_call = NoCall
    /\ ComfyIdle

NextProbe == GetPrinterStatus

SpecProbe == InitProbe /\ [][NextProbe]_vars

\* The Comfy AI tab: the script is run again and again on the session state,
\* with any button presses, service answers and pauses; nothing is printing
\* or being discovered.
InitComfy ==
    /\ PRIVACY_MODE = TRUE
    /\ printer_info = NoInfo
    /\ PrintIdle
    /\ FALLBACK_LABEL_TYPE = T_62
    /\ FALLBACK_MODELS = {}
    /\ available_devices = [b \in DOMAIN Backends |-> <<>>]
    /\ DiscoverIdle
    /\ ProbeIdle
    /\ ComfyIdle

NextComfy == \E inp \in RenderInputs : Render(inp)

SpecComfy == InitComfy /\ [][NextComfy]_vars

\* The same with the page being re-run: a run without a button press in
\* which the template loads eventually happens whenever it would change
\* something.
SpecComfyRerun == SpecComfy /\ WF_comfyVars(Rerun)

\* =================================================================== claims
Jobs == DOMAIN job_statuses
Rank(s) == CASE s = "pending" -> 1
             [] s = "processing" -> 2
             [] s \in Terminal -> 3
             [] OTHER -> 0
InQueue(j) == \E i \in DOMAIN queue : queue[i].job_id = j
JobPath(j) == temp_file_path[CHOOSE c \in Callers : job_id[c] = j]
ProcessReturned(j) == proc[j].result # <<>>

\* C1: the statuses a print_image call reads for its job never move backwards
\* along pending -> processing -> completed|failed, and a stored terminal
\* status never changes again.
C1_StatusMonotone ==
    [][ /\ \A j \in Jobs :
             /\ Rank(job_statuses'[j].status) >= Rank(job_statuses[j].status)
             /\ job_statuses[j].status \in Terminal => job_statuses'[j] = job_statuses[j]
        /\ \A c \in Callers :
             /\ Rank(status'[c].status) >= Rank(status[c].status)
             /\ status[c].status \in Terminal => status'[c] = status[c] ]_vars

C1_Witness ==
    \E c \in Callers : /\ pc[c] = "returned"
                       /\ status[c].status = "failed"
                       /\ job_statuses[job_id[c]] = status[c]

\* C2 (as claimed): the lookup print_image makes right after add_job returns
\* "pending".
C2_FirstLookupPending ==
    [][ \A c \in Callers :
          (pc[c] = "get_status" /\ pc'[c] = "poll") => status'[c].status = "pending" ]_vars

\* C2 (amended): the lookup right after add_job returns "pending" as long as
\* the processor has not taken the job, and returns a terminal status only
\* for a job that process_print_job has been run on.
C2_FirstLookupNotAhead ==
    [][ \A c \in Callers :
          (pc[c] = "get_status" /\ pc'[c] = "poll") =>
             /\ InQueue(job_id[c]) => status'[c].status = "pending"
             /\ status'[c].status \in Terminal => proc[job_id[c]].calls = 1 ]_vars

C2_Witness ==
    \E c \in Callers : /\ pc[c] = "poll"
                       /\ status[c].status = "pending"
                       /\ InQueue(job_id[c])

\* C3 (as claimed): the send to the printer happens at most once per job and
\* exactly once for a job that reached a terminal status.
C3_SendExactlyOnce ==
    \A j \in Jobs : /\ proc[j].sends <= 1
                    /\ job_statuses[j].status \in Terminal => proc[j].sends = 1

\* C3 (amended): process_print_job runs at most once per job and exactly once
\* for a job with a terminal status; its send happens at most once, and for a
\* terminal job exactly once unless conversion raised before the send.
C3_OneProcessorRun ==
    \A j \in Jobs :
       /\ proc[j].calls <= 1
       /\ proc[j].sends <= 1
       /\ job_statuses[j].status \in Terminal =>
             /\ proc[j].calls = 1
             /\ proc[j].sends = IF proc[j].outcome = ConvertException THEN 0 ELSE 1

C3_Witness ==
    /\ Len(job_statuses) = 2
    /\ \A j \in Jobs : job_statuses[j].status \in Terminal
    /\ \E j \in Jobs : proc[j].sends = 1
    /\ \E j \in Jobs : proc[j].outcome = ConvertException

\* C4: a USBError with errno 110 raised by the transmission makes
\* process_print_job return success = true with a non-null message.
C4_BenignTimeoutIsSuccess ==
    \A j \in Jobs :
       (ProcessReturned(j) /\ proc[j].outcome = USBError(ETIMEDOUT)) =>
           /\ proc[j].result[1] = TRUE
           /\ proc[j].result[2] # None

C4_Witness ==
    \E j \in Jobs : ProcessReturned(j) /\ proc[j].outcome = USBError(ETIMEDOUT)

OtherUSBError(j) == proc[j].outcome.kind = "USBError" /\ proc[j].outcome.errno # ETIMEDOUT

\* C5 (as claimed): after a USBError with another errno, process_print_job
\* has returned success = false and the temporary file no longer exists.
C5_OtherUSBErrorFileGone ==
    \A j \in Jobs :
       (ProcessReturned(j) /\ OtherUSBError(j)) =>
           /\ proc[j].result[1] = FALSE
           /\ JobPath(j) \notin temp_files

\* C5 (amended): after a USBError with another errno, process_print_job has
\* returned success = false and has attempted the deletion: the temporary
\* file no longer exists unless os.remove itself failed.
C5_OtherUSBErrorCleanup ==
    \A j \in Jobs :
       (ProcessReturned(j) /\ OtherUSBError(j)) =>
           /\ proc[j].result[1] = FALSE
           /\ proc[j].cleanup \in {"deleted", "failed"}
           /\ proc[j].cleanup = "deleted" => JobPath(j) \notin temp_files

C5_Witness ==
    \E j \in Jobs : /\ ProcessReturned(j)
                    /\ OtherUSBError(j)
                    /\ JobPath(j) \notin temp_files

\* C6: whatever conversion and transmission did, the cleanup ran before
\* process_print_job returned and removed the temporary file; a failing
\* deletion is not raised and does not change the returned pair.
C6_CleanupOnEveryPath ==
    \A j \in Jobs :
       ProcessReturned(j) =>
           LET o == proc[j].outcome
               r == proc[j].result
           IN /\ proc[j].cleanup \in {"deleted", "failed"}
              /\ proc[j].cleanup = "deleted" => JobPath(j) \notin temp_files
              /\ r # Raised
              /\ o = Returned(TRUE) => r = <<TRUE, None>>
              /\ o = Returned(FALSE) => r = <<FALSE, "Failed to print using Python API">>
              /\ o = USBError(ETIMEDOUT) => r = <<TRUE, "Print completed (timeout is normal)">>
              /\ (o.kind = "USBError" /\ o.errno # ETIMEDOUT) =>
                    r = <<FALSE, "USBError encountered: [Errno 19] No such device">>
              /\ o = OtherException =>
                    r = <<FALSE, "Unexpected error during printing: send failed">>
              /\ o = ConvertException =>
                    r = <<FALSE, "Unexpected error during printing: conversion failed">>

C6_Witness ==
    /\ Len(job_statuses) = 2
    /\ \A j \in Jobs : ProcessReturned(j)
    /\ \E j \in Jobs : proc[j].cleanup = "failed" /\ proc[j].outcome = Returned(TRUE)
    /\ \E j \in Jobs : proc[j].cleanup = "deleted" /\ proc[j].outcome = ConvertException

\* C7: print_image returns True exactly when the terminal status it saw is
\* completed; for failed it returns False and the job's error message goes
\* to the status container only.
C7_ReturnsCompleted ==
    \A c \in Callers :
       pc[c] = "returned" =>
           /\ retval[c] \in {<<TRUE>>, <<FALSE>>}
           /\ retval[c] = <<TRUE>> <=> (status[c].status = "completed")
           /\ status[c].status = "failed" =>
                 /\ retval[c] = <<FALSE>>
                 /\ ui_error[c] = proc[job_id[c]].result[2]
           /\ status[c].status = "completed" => ui_error[c] = None

C7_Witness ==
    \E c \in Callers : /\ pc[c] = "returned"
                       /\ status[c].status = "failed"
                       /\ retval[c] = <<FALSE>>
                       /\ ui_error[c] = "Failed to print using Python API"

IsStickerName(f) == /\ Len(f) = 4
                    /\ f[1] \in 0..MaxEpoch
                    /\ f[2] = "_"
                    /\ f[3] = "Stikka-"
                    /\ f[4] = ".png"

\* C8: a print_image call whose job completed returns True and has written
\* no permanent file under privacy mode and exactly one, named
\* <epoch>_Stikka-.png, without it; a call whose job failed has written none.
C8_PrivacyModeSaves ==
    \A c \in Callers :
       pc[c] = "returned" =>
           /\ status[c].status = "completed" =>
                 /\ retval[c] = <<TRUE>>
                 /\ Len(saved[c]) = IF PRIVACY_MODE THEN 0 ELSE 1
                 /\ \A i \in DOMAIN saved[c] :
                       IsStickerName(saved[c][i]) /\ saved[c][i] \in labels_dir
           /\ status[c].status = "failed" => saved[c] = <<>>

C8_Witness ==
    /\ ~PRIVACY_MODE
    /\ \E c \in Callers : /\ pc[c] = "returned"
                          /\ status[c].status = "completed"
                          /\ Len(saved[c]) = 1
    /\ \E c \in Callers : /\ pc[c] = "returned"
                          /\ status[c].status = "failed"
                          /\ saved[c] = <<>>

\* ------------------------------------------------------- discovery claims
NumSegments(identifier) ==
    Cardinality({i \in 1..Len(identifier) : identifier[i] = "/"}) + 1

AtDevice == d_pc = "devices" /\ device_i < Len(available_devices[backend_i])
CurrentDevice == available_devices[backend_i][device_i + 1]

\* C9: a listed device whose identifier has fewer than 4 "/"-separated
\* segments adds no record and raises nothing: the device loop moves on to
\* the next device of the same backend.
C9_ShortIdentifierSkipped ==
    [][ (AtDevice /\ NumSegments(CurrentDevice) < 4) =>
           /\ found_printers' = found_printers
           /\ backend_error' = backend_error
           /\ d_pc' = "devices"
           /\ backend_i' = backend_i
           /\ device_i' = device_i + 1 ]_vars

C9_Witness ==
    /\ d_pc = "done"
    /\ available_devices[1] = <<IdShort, Id570>>
    /\ backend_error[1] = "none"
    /\ Len(found_printers) = 1
    /\ found_printers[1].identifier = Id570

\* the identifiers of Identifiers that pass the checks of lines 69-92
RecordIds == {Id570, Id500, IdNoModel, IdBadVendor}
RecordsOf(b) == SelectSeq(found_printers, LAMBDA r : r.backend = Backends[b])
IdsOf(records) == [i \in DOMAIN records |-> records[i].identifier]
Finished(b) == d_pc = "done" \/ (d_pc \in {"backend", "devices"} /\ backend_i > b)
IsPrefix(s, t) == Len(s) <= Len(t) /\ SubSeq(t, 1, Len(s)) = s

\* C10: a backend whose factory or listing raised contributes nothing and
\* stops nothing: every backend that ran without an error has one record,
\* in listing order, for each of its devices that passes the parsing checks,
\* whether the other backend failed before it or after it, and no record
\* is ever removed from the list.
C10_BackendFailureIsolated ==
    /\ [](\A b \in DOMAIN Backends :
             /\ backend_error[b] \in {"factory", "listing"} => RecordsOf(b) = <<>>
             /\ (Finished(b) /\ backend_error[b] = "none") =>
                   IdsOf(RecordsOf(b)) =
                      SelectSeq(available_devices[b], LAMBDA id : id \in RecordIds))
    /\ [][IsPrefix(found_printers, found_printers')]_vars

C10_Witness ==
    /\ d_pc = "done"
    /\ backend_error = <<"factory", "none">>
    /\ available_devices = <<(<<Id500>>), (<<Id570>>)>>
    /\ IdsOf(found_printers) = <<Id570>>
    /\ \A i \in DOMAIN found_printers : found_printers[i].backend = T_linux_kernel

\* ----------------------------------------------------- get_printer_status
Probed == p_call.outcome # "none"
T_WaitingToReceive == <<"W", "a", "i", "t", "i", "n", "g", " ", "t", "o", " ", "R", "e", "c", "e", "i", "v", "e">>
Scenario62mm == Stdout(<<Line_PhaseWaitingToReceive, Line_Media62mm>>)

\* C11: for a record whose model is in FALLBACK_MODELS, get_printer_status
\* never runs the status command, and when it returns the record has
\* label_type = FALLBACK_LABEL_TYPE, label_width = the table's width for that
\* type, label_height = None and status = "Waiting to receive".
C11_FallbackNoQuery ==
    (Probed /\ p_before.model \in FALLBACK_MODELS) =>
        /\ p_call.query = NoQuery
        /\ p_call.outcome = "returned" =>
              /\ p_printer.label_type = FALLBACK_LABEL_TYPE
              /\ p_printer.label_width = get_label_width(FALLBACK_LABEL_TYPE)
              /\ p_printer.label_width # ValueError
              /\ p_printer.label_height = NoHeight
              /\ p_printer.status = T_waiting

C11_Witness ==
    /\ p_call.outcome = "returned"
    /\ p_before.model \in FALLBACK_MODELS
    /\ p_call.query = NoQuery
    /\ p_printer.label_type = T_62
    /\ p_printer.label_width = 696

\* C12 (as claimed): with no fallback model configured, the output
\* "Phase: Waiting to Receive" / "Media size: 62mm" leaves the record with
\* status "Waiting to Receive", label_type "62" and the table's width for "62".
C12_Scenario62mm ==
    (p_call.outcome = "returned" /\ FALLBACK_MODELS = {} /\ p_call.query = Scenario62mm) =>
        /\ p_printer.status = T_WaitingToReceive
        /\ p_printer.label_type = T_62
        /\ p_printer.label_width = get_label_width(T_62)

\* C13 (as claimed): get_printer_status never raises to its caller, whatever
\* the fallback configuration and whatever the status command does.
C13_ProbeNeverRaises == p_call.outcome # "raised"

\* C16: on the live path a timed-out status command leaves status "timeout"
\* and any other failure of the command leaves status = str(e); in both cases
\* label_type, label_size and label_width hold their reset values
\* ("unknown", "unknown", 0), whatever an earlier call left in the record.
C16_QueryFailureResets ==
    (Probed /\ p_call.query.kind \in {"TimeoutExpired", "Exception"}) =>
        /\ p_call.outcome = "returned"
        /\ p_printer.status =
              (IF p_call.query.kind = "TimeoutExpired" THEN T_timeout ELSE T_query_error)
        /\ p_printer.label_type = T_unknown
        /\ p_printer.label_size = T_unknown
        /\ p_printer.label_width = 0

C16_Witness ==
    /\ p_call.query = Timeout
    /\ p_before.label_type = T_62
    /\ p_before.label_width = 696
    /\ p_printer.status = T_timeout
    /\ p_printer.label_type = T_unknown

\* ------------------------------------------- find_and_parse_printer, devices
DeviceInfoTokens(identifier) == Split(Split(identifier, T_slash)[3], T_colon)
IsHex(token) == ParseInt(token, 16) # ValueError
\* a well-formed identifier whose product id is hexadecimal and matches no model
Unmatched(identifier) ==
    /\ NumSegments(identifier) >= 4
    /\ Len(DeviceInfoTokens(identifier)) = 2
    /\ IsHex(DeviceInfoTokens(identifier)[2])
    /\ MatchModel(ModelTable, ParseInt(DeviceInfoTokens(identifier)[2], 16), Unbound) = Unbound
Appended(identifier) ==
    /\ Len(found_printers') = Len(found_printers) + 1
    /\ SubSeq(found_printers', 1, Len(found_printers)) = found_printers
    /\ found_printers'[Len(found_printers')].identifier = identifier
Skipped ==
    /\ found_printers' = found_printers
    /\ backend_error' = backend_error
    /\ d_pc' = "devices"
    /\ backend_i' = backend_i
    /\ device_i' = device_i + 1
ProbeCannotRaise == FALLBACK_MODELS = {} \/ get_label_width(FALLBACK_LABEL_TYPE) # ValueError
\* the identifiers of Identifiers that are well formed and resolve to a model
Resolvable == {Id570, Id500}

\* C15 (as claimed): every record find_and_parse_printer returns is as a
\* completed call of get_printer_status leaves it (for some result of the
\* status command); none keeps the fields of an interrupted call.
C15_ReturnedRecordsProbed ==
    d_pc = "done" =>
       \A i \in DOMAIN found_printers :
          \E query \in DiscoverQueryResults :
             /\ ~get_printer_status(found_printers[i], query).raised
             /\ get_printer_status(found_printers[i], query).printer = found_printers[i]

\* C17 (as claimed): a well-formed device whose product id is hexadecimal but
\* matches no model still gets a record, and the record's model is the one
\* resolved for the most recent earlier device of the call.
C17_UnmatchedKeepsModel ==
    [][ (AtDevice /\ Unmatched(CurrentDevice)) =>
           /\ Appended(CurrentDevice)
           /\ model # Unbound
           /\ found_printers'[Len(found_printers')].model = model ]_vars

\* C18 (as claimed): a device whose third segment is not exactly two
\* ":"-separated tokens, or whose vendor token or product token is not
\* hexadecimal, adds no record.
C18_BadVendorOrProductSkipped ==
    [][ (/\ AtDevice
         /\ NumSegments(CurrentDevice) >= 4
         /\ \/ Len(DeviceInfoTokens(CurrentDevice)) # 2
            \/ ~IsHex(DeviceInfoTokens(CurrentDevice)[1])
            \/ ~IsHex(DeviceInfoTokens(CurrentDevice)[2])) =>
           found_printers' = found_printers ]_vars

\* C18 (amended): a device whose third segment is not exactly two
\* ":"-separated tokens, or whose product token is not hexadecimal, adds no
\* record and the loop moves on to the next device; the vendor token is
\* never parsed, so a device with a non-hexadecimal vendor token and a
\* product id that matches a model does get its record.
C18_BadProductSkipped ==
    [][ (AtDevice /\ NumSegments(CurrentDevice) >= 4) =>
           /\ (\/ Len(DeviceInfoTokens(CurrentDevice)) # 2
               \/ ~IsHex(DeviceInfoTokens(CurrentDevice)[2])) => Skipped
           /\ (/\ Len(DeviceInfoTokens(CurrentDevice)) = 2
               /\ ~IsHex(DeviceInfoTokens(CurrentDevice)[1])
               /\ IsHex(DeviceInfoTokens(CurrentDevice)[2])
               /\ ~Unmatched(CurrentDevice)) =>
                  /\ Appended(CurrentDevice)
                  /\ found_printers'[Len(found_printers')].vendor_id =
                        DeviceInfoTokens(CurrentDevice)[1] ]_vars

C18_Witness ==
    /\ d_pc = "done"
    /\ available_devices[1] = <<IdBadProduct, IdBadVendor>>
    /\ backend_error[1] = "none"
    /\ IdsOf(found_printers) = <<IdBadVendor>>

\* C19 (as claimed): a device that is skipped or cannot be resolved affects
\* only itself: every backend whose listing succeeded ends with exactly one
\* record for each of its well-formed, resolvable devices, whatever other
\* devices it listed before or after them.
C19_SkippedAffectsOnlyItself ==
    (d_pc = "done" /\ ProbeCannotRaise) =>
       \A b \in DOMAIN Backends :
          backend_error[b] \notin {"factory", "listing"} =>
             SelectSeq(IdsOf(RecordsOf(b)), LAMBDA id : id \in Resolvable) =
                SelectSeq(available_devices[b], LAMBDA id : id \in Resolvable)

\* ---------------------------------------------------- process_print_job, send
\* C14 (as claimed): the backend a job is sent over is the backend named in
\* the job's printer record.
C14_SendUsesRecordBackend ==
    \A j \in Jobs :
       proc[j].sends > 0 => proc[j].backend_identifier = printer_info.backend

\* ------------------------------------------------------ print_image, waiting
\* C20: print_image returns only after it has read a terminal status for its
\* job (so never while the last status read is pending or processing, and
\* never for a job that has not reached a terminal status); while the last
\* status read is pending or processing the call stays in its loop, however
\* many iterations that takes; and once the job has reached a terminal
\* status the call eventually returns.
C20_ReturnsExactlyOnTerminal ==
    /\ [](\A c \in Callers :
             pc[c] = "returned" =>
                /\ status[c].status \in Terminal
                /\ job_statuses[job_id[c]].status \in Terminal)
    /\ [][ \A c \in Callers :
             (pc[c] = "poll" /\ status[c].status \in {"pending", "processing"}) =>
                 pc'[c] = "poll" ]_waitVars
    /\ \A c \in Callers :
          (job_id[c] # 0 /\ job_statuses[job_id[c]].status \in Terminal)
              ~> (pc[c] = "returned")

C20_Witness ==
    \E c, d \in Callers :
       /\ pc[c] = "returned"
       /\ status[c].status = "completed"
       /\ pc[d] = "poll"
       /\ status[d].status = "processing"
       /\ job_statuses[job_id[d]].status = "processing"

\* ------------------------------------------------ the temporary file of a job
\* C21: a job's temporary file is on disk when the job is enqueued, stays
\* there until process_print_job has reached its outcome for the job
\* (so through the conversion and the transmission that read it), is only
\* ever removed by the cleanup of that job, and once it is deleted the job
\* is never processed (read) again.
C21_TempFileLifetime ==
    /\ [](\A c \in Callers :
             job_id[c] # 0 =>
                /\ proc[job_id[c]].outcome = NoOutcome => temp_file_path[c] \in temp_files
                /\ temp_file_path[c] \notin temp_files =>
                      proc[job_id[c]].cleanup = "deleted")
    /\ [][ /\ \A c \in Callers :
               (job_id[c] = 0 /\ job_id'[c] # 0) =>
                   /\ temp_file_path[c] \in temp_files
                   /\ temp_file_path'[c] \in temp_files'
           /\ \A path \in temp_files \ temp_files' :
                   /\ w_pc = "finally"
                   /\ path = w_job.temp_file_path
                   /\ proc[w_job.job_id].outcome # NoOutcome
           /\ \A j \in Jobs :
                   proc[j].cleanup = "deleted" =>
                       /\ proc'[j].calls = proc[j].calls
                       /\ proc'[j].sends = proc[j].sends
                       /\ \A i \in DOMAIN queue' : queue'[i].job_id # j ]_vars

C21_Witness ==
    \E j, k \in Jobs :
       /\ proc[j].cleanup = "deleted"
       /\ proc[j].sends = 1
       /\ JobPath(j) \notin temp_files
       /\ job_statuses[j].status \in Terminal
       /\ InQueue(k)
       /\ JobPath(k) \in temp_files

\* ------------------------------------------ process_print_job, returned pair
\* C22: process_print_job returns success = True exactly when send()
\* returned a true value or raised USBError with errno 110; in every other
\* case (false value, USBError with another errno, any other exception of
\* convert or send) it returns success = False with a message; the message
\* is None exactly when send() returned a true value.
C22_SuccessExactly ==
    \A j \in Jobs :
       ProcessReturned(j) =>
           LET o == proc[j].outcome
               r == proc[j].result
           IN /\ r[1] \in BOOLEAN
              /\ r[1] <=> (o = Returned(TRUE) \/ o = USBError(ETIMEDOUT))
              /\ ~r[1] => r[2] # None
              /\ r[2] = None <=> o = Returned(TRUE)

C22_Witness ==
    /\ Len(job_statuses) = 2
    /\ ProcessReturned(1) /\ proc[1].outcome = Returned(FALSE)
    /\ proc[1].result = <<FALSE, "Failed to print using Python API">>
    /\ ProcessReturned(2) /\ proc[2].outcome = USBError(ETIMEDOUT)
    /\ proc[2].result[1]

\* ---------------------------------------- get_printer_status, label fields
\* C25 (as claimed): whenever get_printer_status returns normally,
\* label_type is "unknown" exactly when label_width is 0, and a label_type
\* other than "unknown" comes with the width ALL_LABELS gives for it.
C25_LabelFieldsConsistent ==
    p_call.outcome = "returned" =>
        /\ p_printer.label_type = T_unknown <=> p_printer.label_width = 0
        /\ p_printer.label_type # T_unknown =>
              p_printer.label_width = get_label_width(p_printer.label_type)

\* ------------------------------------------------------- comfy_ai.render
Polled == comfy_run'.polls = comfy_run.polls + 1
Queued == comfy_run'.queued # comfy_run.queued

\* C23: for each queued prompt at most 10 history polls are issued:
\* comfy_poll_attempts never exceeds 10; a poll is issued only in a run
\* that finds comfy_generating true, comfy_poll_failed false and fewer than
\* 10 attempts; and queueing a new prompt with Generate sets the counter
\* back to 0.
C23_AtMostTenPolls ==
    /\ [](/\ session_state.comfy_poll_attempts <= 10
          /\ comfy_run.polls <= 10)
    /\ [][ /\ Polled =>
                 /\ session_state.comfy_generating
                 /\ ~session_state.comfy_poll_failed
                 /\ session_state.comfy_poll_attempts < 10
           /\ Queued =>
                 /\ session_state'.comfy_poll_attempts = 0
                 /\ comfy_run'.polls = 0 ]_comfyVars

C23_Witness ==
    /\ comfy_run.polls = 10
    /\ session_state.comfy_poll_attempts = 10
    /\ session_state.comfy_generating
    /\ comfy_run.queued

====
